---------------------------- MODULE Spec2Model ----------------------------
(* Model of PolicyService (backend/src/security/policy/policy.service.ts): *)
(* the RBAC + ABAC policy engine with its Redis document cache, its Redis  *)
(* evaluation cache, the tenant store and the audit log.                   *)
EXTENDS Integers, Sequences, FiniteSets, TLC

(***************************************************************************)
(* Values                                                                  *)
(***************************************************************************)
\* JavaScript undefined (an absent optional field) and null.
Undefined == "undefined"
Null == "null"
\* An absent bound of a time condition (a falsy start / end).
NoBound == -1

CACHE_TTL == 300
EVAL_CACHE_TTL == 60
POLICY_CACHE_PREFIX == "policy:doc:"
EVAL_CACHE_PREFIX == "policy:eval:"

(***************************************************************************)
(* evaluate: subject normalisation                                          *)
(***************************************************************************)
\* A subject given as a bare role string is the record with type "string".
NormalizeSubject(subject) ==
    IF subject.type = "string" THEN [type |-> "role", id |-> subject.id]
    ELSE subject

(***************************************************************************)
(* evaluateRBAC                                                            *)
(***************************************************************************)
\* Faulty variant: the last permission for the resource is taken, not the first.
FindPermissionLast(permissions, resource) ==
    LET hits == {i \in 1..Len(permissions) : permissions[i].resource = resource}
    IN  IF hits = {} THEN 0
        ELSE CHOOSE i \in hits : \A j \in hits : i >= j

\* Array.prototype.find: the index of the first permission for the resource,
\* 0 when there is none.
FindPermission(permissions, resource) ==
    LET hits == {i \in 1..Len(permissions) : permissions[i].resource = resource}
    IN  IF hits = {} THEN 0
        ELSE CHOOSE i \in hits : \A j \in hits : i <= j

RbacResult(allowed, denied, reason) ==
    [allowed |-> allowed, denied |-> denied, reason |-> reason,
     matchedRuleId |-> Undefined]

\* Faulty variant: a scope mismatch is no opinion instead of a deny.
EvaluateRBACSoftScope(subject, action, resource, context, policyDoc) ==
    IF subject.type # "role" \/ subject.id \notin DOMAIN policyDoc.roles
    THEN RbacResult(FALSE, FALSE, "Subject is not a role, skipping RBAC")
    ELSE
      LET permissions == policyDoc.roles[subject.id].permissions
          idx == FindPermission(permissions, resource)
      IN  IF idx = 0 \/ action \notin permissions[IF idx = 0 THEN 1 ELSE idx].actions
          THEN RbacResult(FALSE, FALSE,
                          "No permission defined for resource " \o resource)
          ELSE IF permissions[idx].effect = "deny"
          THEN RbacResult(FALSE, TRUE,
                  "Deny effect for role " \o subject.id \o " on " \o resource)
          ELSE IF permissions[idx].scope = "all"
          THEN RbacResult(TRUE, FALSE, "Allow effect (scope: all)")
          ELSE IF permissions[idx].scope \in {"own", "workspace"}
                  /\ context.workspaceId # Undefined
          THEN RbacResult(TRUE, FALSE, "Allow effect (scope: workspace)")
          ELSE RbacResult(FALSE, FALSE, "Scope mismatch")

\* Faulty variant: an allow entry with an unrecognized scope allows.
EvaluateRBACUnknownScopeAllows(subject, action, resource, context, policyDoc) ==
    IF subject.type # "role" \/ subject.id \notin DOMAIN policyDoc.roles
    THEN RbacResult(FALSE, FALSE, "Subject is not a role, skipping RBAC")
    ELSE
      LET permissions == policyDoc.roles[subject.id].permissions
          idx == FindPermission(permissions, resource)
      IN  IF idx = 0 \/ action \notin permissions[IF idx = 0 THEN 1 ELSE idx].actions
          THEN RbacResult(FALSE, FALSE,
                          "No permission defined for resource " \o resource)
          ELSE IF permissions[idx].effect = "deny"
          THEN RbacResult(FALSE, TRUE,
                  "Deny effect for role " \o subject.id \o " on " \o resource)
          ELSE IF permissions[idx].scope \in {"own", "workspace"}
                  /\ context.workspaceId = Undefined
          THEN RbacResult(FALSE, TRUE,
                  "Scope mismatch (workspace scope requires workspaceId in context)")
          ELSE RbacResult(TRUE, FALSE, "Allow effect (scope: " \o
                                       permissions[idx].scope \o ")")

EvaluateRBAC(subject, action, resource, context, policyDoc) ==
    IF subject.type # "role"
    THEN RbacResult(FALSE, FALSE, "Subject is not a role, skipping RBAC")
    ELSE IF subject.id \notin DOMAIN policyDoc.roles
    THEN RbacResult(FALSE, FALSE, "Role " \o subject.id \o " not found in policy")
    ELSE
      LET permissions == policyDoc.roles[subject.id].permissions
          idx == FindPermission(permissions, resource)
      IN  IF idx = 0
          THEN RbacResult(FALSE, FALSE,
                          "No permission defined for resource " \o resource)
          ELSE
            LET permission == permissions[idx]
            IN  IF action \notin permission.actions
                THEN RbacResult(FALSE, FALSE,
                        "Action " \o action \o
                        " not in allowed actions for resource " \o resource)
                ELSE IF permission.effect = "deny"
                THEN RbacResult(FALSE, TRUE,
                        "Deny effect for role " \o subject.id \o " on " \o resource)
                ELSE IF permission.scope = "own"
                THEN IF context.workspaceId # Undefined
                     THEN RbacResult(TRUE, FALSE, "Allow effect (scope: own/workspace)")
                     ELSE RbacResult(FALSE, TRUE,
                            "Scope mismatch (own scope requires workspace context)")
                ELSE IF permission.scope = "workspace"
                THEN IF context.workspaceId # Undefined
                     THEN RbacResult(TRUE, FALSE, "Allow effect (scope: workspace)")
                     ELSE RbacResult(FALSE, TRUE,
                            "Scope mismatch (workspace scope requires workspaceId in context)")
                ELSE IF permission.scope = "all"
                THEN RbacResult(TRUE, FALSE, "Allow effect (scope: all)")
                ELSE RbacResult(FALSE, FALSE, "Unknown scope: " \o permission.scope)

(***************************************************************************)
(* evaluateABAC                                                            *)
(***************************************************************************)
\* Faulty variant: the bounds of the time window are exclusive.
RuleMatchesExclusive(rule, subject, action, resource, context, t) ==
    /\ rule.action = action
    /\ rule.resource = resource
    /\ rule.subject.type = subject.type
    /\ rule.subject.id = subject.id
    /\ rule.conditions.has =>
         /\ rule.conditions.tenantId # Undefined
               => rule.conditions.tenantId = context.tenantId
         /\ rule.conditions.workspaceId # Undefined
               => rule.conditions.workspaceId = context.workspaceId
         /\ rule.conditions.userIds # {}
               => context.userId \in rule.conditions.userIds
         /\ rule.conditions.time.has =>
               /\ rule.conditions.time.start # NoBound
                     => t > rule.conditions.time.start
               /\ rule.conditions.time.end # NoBound
                     => t < rule.conditions.time.end

\* The filter callback of evaluateABAC.
RuleMatches(rule, subject, action, resource, context, t) ==
    /\ rule.action = action
    /\ rule.resource = resource
    /\ rule.subject.type = subject.type
    /\ rule.subject.id = subject.id
    /\ rule.conditions.has =>
         /\ rule.conditions.tenantId # Undefined
               => rule.conditions.tenantId = context.tenantId
         /\ rule.conditions.workspaceId # Undefined
               => rule.conditions.workspaceId = context.workspaceId
         /\ rule.conditions.userIds # {}
               => context.userId \in rule.conditions.userIds
         /\ rule.conditions.time.has =>
               /\ rule.conditions.time.start # NoBound
                     => ~(t < rule.conditions.time.start)
               /\ rule.conditions.time.end # NoBound
                     => ~(t > rule.conditions.time.end)

\* Faulty variant: the comparator without the deny-first ordering.
RuleCompareNoOrder(a, b) == 0

\* Faulty variant: the comparator orders by the priority field, highest first.
RuleCompareByPriority(a, b) ==
    IF a.priority > b.priority THEN -1
    ELSE IF a.priority < b.priority THEN 1
    ELSE 0

\* The comparator handed to Array.prototype.sort.
RuleCompare(a, b) ==
    IF a.effect = "deny" /\ b.effect = "allow" THEN -1
    ELSE IF a.effect = "allow" /\ b.effect = "deny" THEN 1
    ELSE 0

\* Array.prototype.sort is stable: an element is placed before the first
\* already placed element it compares less than.
RECURSIVE InsertRule(_, _)
InsertRule(sorted, rule) ==
    IF sorted = <<>> THEN <<rule>>
    ELSE IF RuleCompare(rule, Head(sorted)) < 0 THEN <<rule>> \o sorted
    ELSE <<Head(sorted)>> \o InsertRule(Tail(sorted), rule)

RECURSIVE SortRules(_)
SortRules(rules) ==
    IF rules = <<>> THEN <<>>
    ELSE InsertRule(SortRules(SubSeq(rules, 1, Len(rules) - 1)), rules[Len(rules)])

MatchingRules(subject, action, resource, context, policyDoc, t) ==
    SelectSeq(policyDoc.rules,
              LAMBDA rule : RuleMatches(rule, subject, action, resource, context, t))

EvaluateABAC(subject, action, resource, context, policyDoc, t) ==
    LET matchingRules ==
            SortRules(MatchingRules(subject, action, resource, context, policyDoc, t))
    IN  IF matchingRules = <<>>
        THEN [allowed |-> FALSE, denied |-> FALSE,
              reason |-> "No ABAC rules matched", matchedRuleId |-> Undefined]
        ELSE LET rule == Head(matchingRules)
             IN  IF rule.effect = "deny"
                 THEN [allowed |-> FALSE, denied |-> TRUE,
                       reason |-> "Denied by rule " \o rule.id,
                       matchedRuleId |-> rule.id]
                 ELSE [allowed |-> TRUE, denied |-> FALSE,
                       reason |-> "Allowed by rule " \o rule.id,
                       matchedRuleId |-> rule.id]

(***************************************************************************)
(* evaluate: the decision computed from a loaded document                  *)
(***************************************************************************)
DefaultDenyReason == "Denied by default (no allow/deny rule matched)"

PolicyResultOf(allowed, denied, reason, matchedRuleId) ==
    [allowed |-> allowed, denied |-> denied, reason |-> reason,
     matchedRuleId |-> matchedRuleId]

\* Faulty variant: the ABAC layer is run first and its verdict wins over RBAC.
ComputeDecisionAbacFirst(subject, action, resource, context, policyDoc, t) ==
    LET rbac == EvaluateRBAC(subject, action, resource, context, policyDoc)
        abac == EvaluateABAC(subject, action, resource, context, policyDoc, t)
    IN  IF abac.allowed
        THEN [result |-> PolicyResultOf(TRUE, FALSE, abac.reason, abac.matchedRuleId),
              rbac |-> rbac, abacConsulted |-> TRUE, abac |-> abac]
        ELSE IF abac.denied \/ rbac.denied
        THEN [result |-> PolicyResultOf(FALSE, TRUE, abac.reason, abac.matchedRuleId),
              rbac |-> rbac, abacConsulted |-> TRUE, abac |-> abac]
        ELSE IF rbac.allowed
        THEN [result |-> PolicyResultOf(TRUE, FALSE, rbac.reason, Null),
              rbac |-> rbac, abacConsulted |-> TRUE, abac |-> abac]
        ELSE [result |-> PolicyResultOf(FALSE, TRUE, DefaultDenyReason, Null),
              rbac |-> rbac, abacConsulted |-> TRUE, abac |-> abac]

\* Faulty variant: an ABAC deny is looked for before the RBAC allow is honoured.
ComputeDecisionAbacDenyFirst(subject, action, resource, context, policyDoc, t) ==
    LET rbac == EvaluateRBAC(subject, action, resource, context, policyDoc)
        abac == EvaluateABAC(subject, action, resource, context, policyDoc, t)
    IN  IF rbac.denied
        THEN [result |-> PolicyResultOf(FALSE, TRUE, rbac.reason, Null),
              rbac |-> rbac, abacConsulted |-> FALSE, abac |-> abac]
        ELSE IF abac.denied
        THEN [result |-> PolicyResultOf(FALSE, TRUE, abac.reason, abac.matchedRuleId),
              rbac |-> rbac, abacConsulted |-> TRUE, abac |-> abac]
        ELSE IF rbac.allowed
        THEN [result |-> PolicyResultOf(TRUE, FALSE, rbac.reason, Null),
              rbac |-> rbac, abacConsulted |-> TRUE, abac |-> abac]
        ELSE IF abac.allowed
        THEN [result |-> PolicyResultOf(TRUE, FALSE, abac.reason, abac.matchedRuleId),
              rbac |-> rbac, abacConsulted |-> TRUE, abac |-> abac]
        ELSE [result |-> PolicyResultOf(FALSE, TRUE, DefaultDenyReason, Null),
              rbac |-> rbac, abacConsulted |-> TRUE, abac |-> abac]

\* Faulty variant: the fallback fails open, a request no layer decides is allowed.
ComputeDecisionAllowDefault(subject, action, resource, context, policyDoc, t) ==
    LET rbac == EvaluateRBAC(subject, action, resource, context, policyDoc)
        abac == EvaluateABAC(subject, action, resource, context, policyDoc, t)
    IN  IF rbac.denied
        THEN [result |-> PolicyResultOf(FALSE, TRUE, rbac.reason, Null),
              rbac |-> rbac, abacConsulted |-> FALSE, abac |-> abac]
        ELSE IF rbac.allowed
        THEN [result |-> PolicyResultOf(TRUE, FALSE, rbac.reason, Null),
              rbac |-> rbac, abacConsulted |-> FALSE, abac |-> abac]
        ELSE IF abac.denied
        THEN [result |-> PolicyResultOf(FALSE, TRUE, abac.reason, abac.matchedRuleId),
              rbac |-> rbac, abacConsulted |-> TRUE, abac |-> abac]
        ELSE IF abac.allowed
        THEN [result |-> PolicyResultOf(TRUE, FALSE, abac.reason, abac.matchedRuleId),
              rbac |-> rbac, abacConsulted |-> TRUE, abac |-> abac]
        ELSE [result |-> PolicyResultOf(TRUE, FALSE, "Allowed by default", Null),
              rbac |-> rbac, abacConsulted |-> TRUE, abac |-> abac]

\* Faulty variant: the default-deny fallback is missing, the ABAC no-opinion is returned.
ComputeDecisionNoDefault(subject, action, resource, context, policyDoc, t) ==
    LET rbac == EvaluateRBAC(subject, action, resource, context, policyDoc)
        abac == EvaluateABAC(subject, action, resource, context, policyDoc, t)
    IN  IF rbac.denied
        THEN [result |-> PolicyResultOf(FALSE, TRUE, rbac.reason, Null),
              rbac |-> rbac, abacConsulted |-> FALSE, abac |-> abac]
        ELSE IF rbac.allowed
        THEN [result |-> PolicyResultOf(TRUE, FALSE, rbac.reason, Null),
              rbac |-> rbac, abacConsulted |-> FALSE, abac |-> abac]
        ELSE [result |-> PolicyResultOf(abac.allowed, abac.denied, abac.reason,
                                        abac.matchedRuleId),
              rbac |-> rbac, abacConsulted |-> TRUE, abac |-> abac]

\* Lines 174-277 of evaluate: RBAC, then ABAC, then the default deny.  The
\* fields rbac, abac and abacConsulted record what the evaluators returned and
\* whether evaluateABAC was called.
ComputeDecision(subject, action, resource, context, policyDoc, t) ==
    LET rbac == EvaluateRBAC(subject, action, resource, context, policyDoc)
        abac == EvaluateABAC(subject, action, resource, context, policyDoc, t)
    IN  IF rbac.denied
        THEN [result |-> PolicyResultOf(FALSE, TRUE, rbac.reason, Null),
              rbac |-> rbac, abacConsulted |-> FALSE, abac |-> abac]
        ELSE IF rbac.allowed
        THEN [result |-> PolicyResultOf(TRUE, FALSE, rbac.reason, Null),
              rbac |-> rbac, abacConsulted |-> FALSE, abac |-> abac]
        ELSE IF abac.denied
        THEN [result |-> PolicyResultOf(FALSE, TRUE, abac.reason, abac.matchedRuleId),
              rbac |-> rbac, abacConsulted |-> TRUE, abac |-> abac]
        ELSE IF abac.allowed
        THEN [result |-> PolicyResultOf(TRUE, FALSE, abac.reason, abac.matchedRuleId),
              rbac |-> rbac, abacConsulted |-> TRUE, abac |-> abac]
        ELSE [result |-> PolicyResultOf(FALSE, TRUE, DefaultDenyReason, Null),
              rbac |-> rbac, abacConsulted |-> TRUE, abac |-> abac]

(***************************************************************************)
(* Helpers: cache keys, JSON, the Redis client, the tenant store           *)
(***************************************************************************)
GetEvalCacheKey(subject, action, resource, context) ==
    LET subjectStr == subject.type \o ":" \o subject.id
        scopeStr == IF context.workspaceId # Undefined THEN context.workspaceId
                    ELSE "global"
    IN  EVAL_CACHE_PREFIX \o context.tenantId \o ":" \o subjectStr \o ":" \o
        action \o ":" \o resource \o ":" \o scopeStr

PolicyCacheKey(tenantId) == POLICY_CACHE_PREFIX \o tenantId

\* JSON.stringify drops the properties whose value is undefined; JSON.parse
\* gives back an object on which such a property reads as undefined.
JsonStringify(result) ==
    IF result.matchedRuleId = Undefined
    THEN [allowed |-> result.allowed, denied |-> result.denied,
          reason |-> result.reason]
    ELSE [allowed |-> result.allowed, denied |-> result.denied,
          reason |-> result.reason, matchedRuleId |-> result.matchedRuleId]

JsonParse(text) ==
    PolicyResultOf(text.allowed, text.denied, text.reason,
                   IF "matchedRuleId" \in DOMAIN text THEN text.matchedRuleId
                   ELSE Undefined)

\* RedisService: get / set with a TTL in seconds / del.  An entry is a record
\* [value, seq, expiresAt]; seq is bookkeeping of the model: the number of the
\* store write the cached value derives from.
RedisHit(r, key, t) == key \in DOMAIN r /\ r[key].expiresAt > t

RedisSet(r, key, value, seq, ttl, t) ==
    [k \in DOMAIN r \cup {key} |->
        IF k = key THEN [value |-> value, seq |-> seq, expiresAt |-> t + ttl]
        ELSE r[k]]

RedisDel(r, key) == [k \in DOMAIN r \ {key} |-> r[k]]

\* Redis drops the entries whose TTL has run out.
RedisExpire(r, t) == [k \in {j \in DOMAIN r : r[j].expiresAt > t} |-> r[k]]

(***************************************************************************)
(* Policy documents, requests                                              *)
(***************************************************************************)
NoConditions ==
    [has |-> FALSE, tenantId |-> Undefined, workspaceId |-> Undefined,
     userIds |-> {}, time |-> [has |-> FALSE, start |-> NoBound, end |-> NoBound]]

Conditions(tenantId, workspaceId, userIds, start, end) ==
    [has |-> TRUE, tenantId |-> tenantId, workspaceId |-> workspaceId,
     userIds |-> userIds,
     time |-> [has |-> start # NoBound \/ end # NoBound,
               start |-> start, end |-> end]]

Rule(id, effect, subject, action, resource, conditions, priority) ==
    [id |-> id, effect |-> effect, subject |-> subject, action |-> action,
     resource |-> resource, conditions |-> conditions, priority |-> priority]

Permission(resource, actions, effect, scope) ==
    [resource |-> resource, actions |-> actions, effect |-> effect, scope |-> scope]

User42 == [type |-> "user", id |-> "42"]
Viewer == [type |-> "role", id |-> "VIEWER"]

NoRoles == [r \in {} |-> [permissions |-> <<>>]]
ViewerRole(permissions) == [r \in {"VIEWER"} |-> [permissions |-> permissions]]

\* The document used when none is configured.
DEFAULT_POLICY ==
    [version |-> 1, roles |-> NoRoles, rules |-> <<>>, denyByDefault |-> TRUE]

\* The time, in seconds, from which the time-conditioned rule applies.
WindowStart == 60

\* The documents the tenant store and the administrative caller hold.
PolicyDocs ==
    [DEFAULT |-> DEFAULT_POLICY,
     DocA |->
       [version |-> 1,
        roles |-> ViewerRole(<<Permission("Article", {"read"}, "allow", "all")>>),
        rules |-> <<Rule("a-allow-u1", "allow", User42, "delete", "Article",
                         Conditions(Undefined, Undefined, {"u1"}, NoBound, NoBound), 1),
                    Rule("a-deny-late", "deny", User42, "delete", "Article",
                         Conditions("t1", Undefined, {}, WindowStart, NoBound), 2)>>,
        denyByDefault |-> TRUE],
     DocB |->
       [version |-> 1,
        roles |-> ViewerRole(<<Permission("Article", {"read"}, "deny", "all")>>),
        rules |-> <<Rule("b-allow-viewer", "allow", Viewer, "read", "Article",
                         NoConditions, 9),
                    Rule("b-allow-42", "allow", User42, "delete", "Article",
                         NoConditions, 9),
                    Rule("b-deny-42", "deny", User42, "delete", "Article",
                         NoConditions, 1)>>,
        denyByDefault |-> TRUE],
     DocV2 |->
       [version |-> 2,
        roles |-> ViewerRole(<<Permission("Article", {"read"}, "allow", "all")>>),
        rules |-> <<>>,
        denyByDefault |-> FALSE]]

Context(tenantId, workspaceId, userId) ==
    [tenantId |-> tenantId, workspaceId |-> workspaceId, userId |-> userId]

Request(subject, action, resource, context) ==
    [subject |-> subject, action |-> action, resource |-> resource,
     context |-> context]

\* The requests the enforcement layer sends.  q2 and q3 differ in the user id
\* of the context only.
Requests ==
    [q1 |-> Request([type |-> "string", id |-> "VIEWER"], "read", "Article",
                    Context("t1", Undefined, "u1")),
     q2 |-> Request(User42, "delete", "Article", Context("t1", Undefined, "u1")),
     q3 |-> Request(User42, "delete", "Article", Context("t1", Undefined, "u2"))]

\* Requests of several tenants, on ids with and without the key's separator.
CrossRequests ==
    [x1 |-> Request([type |-> "user", id |-> "role:VIEWER"], "read", "Article",
                    Context("t1", Undefined, "u1")),
     x2 |-> Request(Viewer, "read", "Article", Context("t1:user", Undefined, "u1")),
     x3 |-> Request(Viewer, "read", "Article", Context("t2", Undefined, "u1")),
     x4 |-> Request(Viewer, "read", "Article", Context("t1", "w1:x", "u1")),
     x5 |-> Request(Viewer, "read", "Article", Context("t1", Undefined, "u1"))]

AllRequests == Requests @@ CrossRequests

Tenants == {"t1", "t2"}

\* A row of the tenant table: whether the tenant exists, its configuration
\* (present or null, its policyEngine section, its other sections), and seq, the
\* number of writes the row has seen (bookkeeping of the model).
TenantRow(exists, present, policyEngine, other) ==
    [exists |-> exists,
     configuration |-> [present |-> present, policyEngine |-> policyEngine,
                        other |-> other],
     seq |-> 0]

NoTenant == TenantRow(FALSE, FALSE, Undefined, 0)

InitialRows ==
    {NoTenant,
     TenantRow(TRUE, FALSE, Undefined, 0),
     TenantRow(TRUE, TRUE, Undefined, 1),
     TenantRow(TRUE, TRUE, "DocV2", 1),
     TenantRow(TRUE, TRUE, "DocA", 1)}

\* Lines 67-79 of getPolicyDocument: the document a row yields, and whether the
\* code goes on to cache it.
LoadFromTenant(row) ==
    IF ~row.exists \/ ~row.configuration.present
    THEN [doc |-> "DEFAULT", cached |-> FALSE]
    ELSE LET policyDoc == IF row.configuration.policyEngine = Undefined
                          THEN "DEFAULT"
                          ELSE row.configuration.policyEngine
         IN  IF PolicyDocs[policyDoc].version # 1
             THEN [doc |-> "DEFAULT", cached |-> FALSE]
             ELSE [doc |-> policyDoc, cached |-> TRUE]

\* Faulty variant: the store write is lost.
WriteConfigurationLost(row, snapshot, policy) == row

\* Lines 116-124 of updatePolicyDocument: the configuration read earlier with
\* its policyEngine section replaced, written over the row's configuration.
WriteConfiguration(row, snapshot, policy) ==
    [exists |-> row.exists,
     configuration |-> [present |-> TRUE, policyEngine |-> policy,
                        other |-> snapshot.other],
     seq |-> row.seq + 1]

(***************************************************************************)
(* State                                                                   *)
(***************************************************************************)
\* Bounds of the model.
MaxCalls == 3
MaxActive == 2

VARIABLES
    now,        \* the clock, in seconds
    tenants,    \* the tenant table: tenant id -> row
    redis,      \* the Redis keyspace: key -> entry
    auditLog,   \* the records written through AuditLogService.logAction
    calls,      \* the calls made so far, in the order they started
    confirmed,  \* tenant id -> seq of the newest update that returned success
    probe       \* the last direct evaluation of a document (SpecEval)

vars == <<now, tenants, redis, auditLog, calls, confirmed, probe>>

NoResult == PolicyResultOf(FALSE, FALSE, Undefined, Undefined)

NoDecision ==
    [result |-> NoResult, rbac |-> NoResult, abacConsulted |-> FALSE,
     abac |-> NoResult]

NoProbe ==
    [used |-> FALSE, doc |-> DEFAULT_POLICY,
     request |-> Request(Viewer, "read", "Article",
                         Context("t1", Undefined, Undefined)),
     at |-> 0, decision |-> NoDecision]

\* A call of evaluate, getPolicyDocument or updatePolicyDocument.  pc is the
\* await the call is suspended at.  Besides the call's own locals (doc, result,
\* snapshot) the record keeps what the properties speak about: the decision as
\* computed, whether doc / result came from a cache, the seq of the store write
\* they derive from, and the updates confirmed when the call (startSeq) and its
\* getPolicyDocument (getStartSeq) began.  A call that threw has pc "failed",
\* the error it threw and the await it threw at.
NewCall(kind, pc, tenantId, request, policy) ==
    [kind |-> kind, pc |-> pc, tenantId |-> tenantId, request |-> request,
     policy |-> policy,
     doc |-> Undefined, docSeq |-> 0, docFromCache |-> FALSE,
     decision |-> NoDecision,
     result |-> NoResult, resSeq |-> 0, fromCache |-> FALSE,
     snapshot |-> NoTenant.configuration, writeSeq |-> 0,
     startSeq |-> confirmed[tenantId], getStartSeq |-> 0,
     error |-> Undefined, failedAt |-> Undefined]

CallIds == 1..Len(calls)
Active == {i \in CallIds : calls[i].pc \notin {"done", "failed"}}
RequestOf(c) == AllRequests[c.request]
SubjectOf(c) == NormalizeSubject(RequestOf(c).subject)
EvalKeyOf(c) ==
    GetEvalCacheKey(SubjectOf(c), RequestOf(c).action, RequestOf(c).resource,
                    RequestOf(c).context)

Max(a, b) == IF a >= b THEN a ELSE b

Init ==
    /\ now = 0
    /\ tenants \in {[t \in Tenants |-> IF t = "t1" THEN row ELSE NoTenant] :
                        row \in InitialRows}
    /\ redis = [k \in {} |-> 0]
    /\ auditLog = {}
    /\ calls = <<>>
    /\ confirmed = [t \in Tenants |-> 0]
    /\ probe = NoProbe

(***************************************************************************)
(* Callers                                                                 *)
(***************************************************************************)
CanStart == Len(calls) < MaxCalls /\ Cardinality(Active) < MaxActive

StartEvaluate ==
    /\ CanStart
    /\ \E q \in DOMAIN Requests :
         calls' = Append(calls, NewCall("evaluate", "evalCacheGet",
                                        Requests[q].context.tenantId, q, Undefined))
    /\ UNCHANGED <<now, tenants, redis, auditLog, confirmed, probe>>

StartGet ==
    /\ CanStart
    /\ calls' = Append(calls, [NewCall("get", "docCacheGet", "t1", Undefined, Undefined)
                                 EXCEPT !.getStartSeq = confirmed["t1"]])
    /\ UNCHANGED <<now, tenants, redis, auditLog, confirmed, probe>>

StartUpdate ==
    /\ CanStart
    /\ \E policy \in {"DocB", "DocV2"} :
         calls' = Append(calls, NewCall("update", "findTenant", "t1", Undefined, policy))
    /\ UNCHANGED <<now, tenants, redis, auditLog, confirmed, probe>>

\* The clock readings the model distinguishes: the start, one evaluation-cache
\* TTL later, one document-cache TTL later.
Times == {0, EVAL_CACHE_TTL, CACHE_TTL}

\* Time passes; Redis expires what is due.
Tick ==
    /\ \E t \in Times :
         /\ t > now
         /\ now' = t
         /\ redis' = RedisExpire(redis, t)
    /\ UNCHANGED <<tenants, auditLog, calls, confirmed, probe>>

(***************************************************************************)
(* evaluate and getPolicyDocument, await by await                          *)
(***************************************************************************)
\* What follows getPolicyDocument's return: a getPolicyDocument call is done;
\* evaluate runs lines 174-277 up to the first await (cacheEvalResult).
AfterLoad(c, doc, docSeq, docFromCache) ==
    LET loaded == [c EXCEPT !.doc = doc, !.docSeq = docSeq,
                            !.docFromCache = docFromCache]
    IN  IF c.kind = "get" THEN [loaded EXCEPT !.pc = "done"]
        ELSE LET d == ComputeDecision(SubjectOf(c), RequestOf(c).action,
                                      RequestOf(c).resource, RequestOf(c).context,
                                      PolicyDocs[doc], now)
             IN  [loaded EXCEPT !.decision = d,
                                !.result = d.result, !.resSeq = docSeq,
                                !.pc = "evalCacheSet"]

\* Faulty variant: a hit writes the entry back, which renews its TTL.
EvalCacheGetTouch(i) ==
    LET c == calls[i] IN
    /\ c.pc = "evalCacheGet"
    /\ calls' = [calls EXCEPT ![i] =
         IF RedisHit(redis, EvalKeyOf(c), now)
         THEN [c EXCEPT !.result = JsonParse(redis[EvalKeyOf(c)].value),
                        !.resSeq = redis[EvalKeyOf(c)].seq,
                        !.fromCache = TRUE, !.pc = "done"]
         ELSE [c EXCEPT !.pc = "docCacheGet",
                        !.getStartSeq = confirmed[c.tenantId]]]
    /\ redis' = IF RedisHit(redis, EvalKeyOf(c), now)
                THEN RedisSet(redis, EvalKeyOf(c), redis[EvalKeyOf(c)].value,
                              redis[EvalKeyOf(c)].seq, EVAL_CACHE_TTL, now)
                ELSE redis
    /\ UNCHANGED <<now, tenants, auditLog, confirmed, probe>>

\* Lines 159-169: the evaluation-cache lookup.
EvalCacheGet(i) ==
    LET c == calls[i] IN
    /\ c.pc = "evalCacheGet"
    /\ calls' = [calls EXCEPT ![i] =
         IF RedisHit(redis, EvalKeyOf(c), now)
         THEN [c EXCEPT !.result = JsonParse(redis[EvalKeyOf(c)].value),
                        !.resSeq = redis[EvalKeyOf(c)].seq,
                        !.fromCache = TRUE, !.pc = "done"]
         ELSE [c EXCEPT !.pc = "docCacheGet",
                        !.getStartSeq = confirmed[c.tenantId]]]
    /\ UNCHANGED <<now, tenants, redis, auditLog, confirmed, probe>>

\* Lines 53-59: the document-cache lookup.
DocCacheGet(i) ==
    LET c == calls[i]
        key == PolicyCacheKey(c.tenantId) IN
    /\ c.pc = "docCacheGet"
    /\ calls' = [calls EXCEPT ![i] =
         IF RedisHit(redis, key, now)
         THEN AfterLoad(c, redis[key].value, redis[key].seq, TRUE)
         ELSE [c EXCEPT !.pc = "dbRead"]]
    /\ UNCHANGED <<now, tenants, redis, auditLog, confirmed, probe>>

\* Lines 61-79: the store read, the default document.
DbRead(i) ==
    LET c == calls[i]
        row == tenants[c.tenantId]
        load == LoadFromTenant(row) IN
    /\ c.pc = "dbRead"
    /\ calls' = [calls EXCEPT ![i] =
         IF load.cached
         THEN [c EXCEPT !.doc = load.doc, !.docSeq = row.seq, !.pc = "docCacheSet"]
         ELSE AfterLoad(c, load.doc, row.seq, FALSE)]
    /\ UNCHANGED <<now, tenants, redis, auditLog, confirmed, probe>>

\* Faulty variant: the document is cached with the evaluation cache's TTL.
DocCacheSetShortTtl(i) ==
    LET c == calls[i] IN
    /\ c.pc = "docCacheSet"
    /\ redis' = RedisSet(redis, PolicyCacheKey(c.tenantId), c.doc, c.docSeq,
                         EVAL_CACHE_TTL, now)
    /\ calls' = [calls EXCEPT ![i] = AfterLoad(c, c.doc, c.docSeq, FALSE)]
    /\ UNCHANGED <<now, tenants, auditLog, confirmed, probe>>

\* Lines 81-84: the document is cached and returned.
DocCacheSet(i) ==
    LET c == calls[i] IN
    /\ c.pc = "docCacheSet"
    /\ redis' = RedisSet(redis, PolicyCacheKey(c.tenantId), c.doc, c.docSeq,
                         CACHE_TTL, now)
    /\ calls' = [calls EXCEPT ![i] = AfterLoad(c, c.doc, c.docSeq, FALSE)]
    /\ UNCHANGED <<now, tenants, auditLog, confirmed, probe>>

\* Faulty variant: the result is cached with the document cache's TTL.
EvalCacheSetLongTtl(i) ==
    LET c == calls[i] IN
    /\ c.pc = "evalCacheSet"
    /\ redis' = RedisSet(redis, EvalKeyOf(c), JsonStringify(c.result), c.resSeq,
                         CACHE_TTL, now)
    /\ calls' = [calls EXCEPT ![i].pc = IF c.result.denied THEN "audit" ELSE "done"]
    /\ UNCHANGED <<now, tenants, auditLog, confirmed, probe>>

\* Faulty variant: every result is handed to logPolicyDeny, allows included.
EvalCacheSetAlwaysAudit(i) ==
    LET c == calls[i] IN
    /\ c.pc = "evalCacheSet"
    /\ redis' = RedisSet(redis, EvalKeyOf(c), JsonStringify(c.result), c.resSeq,
                         EVAL_CACHE_TTL, now)
    /\ calls' = [calls EXCEPT ![i].pc = "audit"]
    /\ UNCHANGED <<now, tenants, auditLog, confirmed, probe>>

\* cacheEvalResult; an allow returns after it, a deny goes on to logPolicyDeny.
EvalCacheSet(i) ==
    LET c == calls[i] IN
    /\ c.pc = "evalCacheSet"
    /\ redis' = RedisSet(redis, EvalKeyOf(c), JsonStringify(c.result), c.resSeq,
                         EVAL_CACHE_TTL, now)
    /\ calls' = [calls EXCEPT ![i].pc = IF c.result.denied THEN "audit" ELSE "done"]
    /\ UNCHANGED <<now, tenants, auditLog, confirmed, probe>>

\* Faulty variant: the record is written without the matched rule id.
LogPolicyDenyNoRule(i) ==
    LET c == calls[i] IN
    /\ c.pc = "audit"
    /\ auditLog' = auditLog \cup
         {[action |-> "policy.deny", resource |-> "Policy:" \o SubjectOf(c).id,
           call |-> i, reason |-> c.result.reason, matchedRuleId |-> Undefined]}
    /\ calls' = [calls EXCEPT ![i].pc = "done"]
    /\ UNCHANGED <<now, tenants, redis, confirmed, probe>>

\* logPolicyDeny, after which evaluate returns the result.
LogPolicyDeny(i) ==
    LET c == calls[i] IN
    /\ c.pc = "audit"
    /\ auditLog' = auditLog \cup
         {[action |-> "policy.deny", resource |-> "Policy:" \o SubjectOf(c).id,
           call |-> i, reason |-> c.result.reason,
           matchedRuleId |-> IF c.decision.rbac.denied \/ ~c.decision.abac.denied
                             THEN Undefined ELSE c.result.matchedRuleId]}
    /\ calls' = [calls EXCEPT ![i].pc = "done"]
    /\ UNCHANGED <<now, tenants, redis, confirmed, probe>>

(***************************************************************************)
(* updatePolicyDocument, await by await                                    *)
(***************************************************************************)
\* Faulty variant: the missing tenant is not detected and the update goes on.
FindTenantNoCheck(i) ==
    LET c == calls[i]
        row == tenants[c.tenantId] IN
    /\ c.pc = "findTenant"
    /\ calls' = [calls EXCEPT ![i] =
                    [c EXCEPT !.snapshot = row.configuration, !.pc = "dbWrite"]]
    /\ UNCHANGED <<now, tenants, redis, auditLog, confirmed, probe>>

\* Lines 106-113: the tenant is read; a missing tenant throws.
FindTenant(i) ==
    LET c == calls[i]
        row == tenants[c.tenantId] IN
    /\ c.pc = "findTenant"
    /\ calls' = [calls EXCEPT ![i] =
         IF ~row.exists
         THEN [c EXCEPT !.pc = "failed", !.error = "Tenant not found",
                        !.failedAt = "findTenant"]
         ELSE [c EXCEPT !.snapshot = row.configuration, !.pc = "dbWrite"]]
    /\ UNCHANGED <<now, tenants, redis, auditLog, confirmed, probe>>

\* Lines 115-124: the store write.
DbWrite(i) ==
    LET c == calls[i]
        row == tenants[c.tenantId] IN
    /\ c.pc = "dbWrite"
    /\ tenants' = [tenants EXCEPT ![c.tenantId] =
                      WriteConfiguration(row, c.snapshot, c.policy)]
    /\ calls' = [calls EXCEPT ![i] =
                    [c EXCEPT !.writeSeq = row.seq + 1, !.pc = "invalidate"]]
    /\ UNCHANGED <<now, redis, auditLog, confirmed, probe>>

\* Faulty variant: the invalidation is skipped, the cached document stays.
InvalidatePolicyCacheSkipped(i) ==
    LET c == calls[i] IN
    /\ c.pc = "invalidate"
    /\ calls' = [calls EXCEPT ![i].pc = "auditUpdate"]
    /\ UNCHANGED <<now, tenants, redis, auditLog, confirmed, probe>>

\* Lines 126-127 and invalidatePolicyCache: the document-cache entry is deleted.
InvalidatePolicyCache(i) ==
    LET c == calls[i] IN
    /\ c.pc = "invalidate"
    /\ redis' = RedisDel(redis, PolicyCacheKey(c.tenantId))
    /\ calls' = [calls EXCEPT ![i].pc = "auditUpdate"]
    /\ UNCHANGED <<now, tenants, auditLog, confirmed, probe>>

\* Lines 129-135: the administrative audit record, then the call returns.
LogPolicyUpdate(i) ==
    LET c == calls[i] IN
    /\ c.pc = "auditUpdate"
    /\ auditLog' = auditLog \cup
         {[action |-> "owner.policy.update", resource |-> "Policy", call |-> i,
           reason |-> Undefined, matchedRuleId |-> Undefined]}
    /\ confirmed' = [confirmed EXCEPT ![c.tenantId] = Max(@, c.writeSeq)]
    /\ calls' = [calls EXCEPT ![i].pc = "done"]
    /\ UNCHANGED <<now, tenants, redis, probe>>

Next ==
    \/ StartEvaluate
    \/ StartGet
    \/ StartUpdate
    \/ Tick
    \/ \E i \in CallIds : EvalCacheGet(i)
    \/ \E i \in CallIds : DocCacheGet(i)
    \/ \E i \in CallIds : DbRead(i)
    \/ \E i \in CallIds : DocCacheSet(i)
    \/ \E i \in CallIds : EvalCacheSet(i)
    \/ \E i \in CallIds : LogPolicyDeny(i)
    \/ \E i \in CallIds : FindTenant(i)
    \/ \E i \in CallIds : DbWrite(i)
    \/ \E i \in CallIds : InvalidatePolicyCache(i)
    \/ \E i \in CallIds : LogPolicyUpdate(i)

Spec == Init /\ [][Next]_vars

(***************************************************************************)
(* Several tenants on the shared caches                                    *)
(***************************************************************************)
\* The tenant ids that contain ':', the separator of the evaluation-cache key.
IdsWithSeparator == {"t1:user"}

TenantIdSets == {{"t1", "t2"}, {"t1", "t1:user"}}

\* Tenant t1 denies VIEWER the read of Article (DocB), the others allow it (DocA).
InitTenants ==
    /\ now = 0
    /\ \E ids \in TenantIdSets :
          /\ tenants = [t \in ids |->
                          IF t = "t1" THEN TenantRow(TRUE, TRUE, "DocB", 0)
                          ELSE TenantRow(TRUE, TRUE, "DocA", 0)]
          /\ confirmed = [t \in ids |-> 0]
    /\ redis = [k \in {} |-> 0]
    /\ auditLog = {}
    /\ calls = <<>>
    /\ probe = NoProbe

StartEvaluateCross ==
    /\ CanStart
    /\ \E q \in DOMAIN CrossRequests :
         /\ CrossRequests[q].context.tenantId \in DOMAIN tenants
         /\ calls' = Append(calls, NewCall("evaluate", "evalCacheGet",
                               CrossRequests[q].context.tenantId, q, Undefined))
    /\ UNCHANGED <<now, tenants, redis, auditLog, confirmed, probe>>

StartGetCross ==
    /\ CanStart
    /\ \E t \in DOMAIN tenants :
         calls' = Append(calls, NewCall("get", "docCacheGet", t, Undefined, Undefined))
    /\ UNCHANGED <<now, tenants, redis, auditLog, confirmed, probe>>

NextTenants ==
    \/ StartEvaluateCross
    \/ StartGetCross
    \/ \E i \in CallIds : EvalCacheGet(i)
    \/ \E i \in CallIds : DocCacheGet(i)
    \/ \E i \in CallIds : DbRead(i)
    \/ \E i \in CallIds : DocCacheSet(i)
    \/ \E i \in CallIds : EvalCacheSet(i)
    \/ \E i \in CallIds : LogPolicyDeny(i)

SpecTenants == InitTenants /\ [][NextTenants]_vars

(***************************************************************************)
(* The staleness window after an update                                    *)
(***************************************************************************)
\* Bound of the model: the calls of one behaviour of SpecStale.
MaxStaleCalls == 4

\* Clock readings around the expiry of what was cached at time 0: just before
\* and at one document TTL, just before and at document TTL + evaluation TTL.
StaleTimes ==
    {0, CACHE_TTL - 1, CACHE_TTL, CACHE_TTL + EVAL_CACHE_TTL - 2,
     CACHE_TTL + EVAL_CACHE_TTL}

InitStale ==
    /\ now = 0
    /\ tenants = [t \in Tenants |->
                    IF t = "t1" THEN TenantRow(TRUE, TRUE, "DocA", 1) ELSE NoTenant]
    /\ redis = [k \in {} |-> 0]
    /\ auditLog = {}
    /\ calls = <<>>
    /\ confirmed = [t \in Tenants |-> 0]
    /\ probe = NoProbe

CanStartStale == Len(calls) < MaxStaleCalls /\ Cardinality(Active) < MaxActive

StartEvaluateStale ==
    /\ CanStartStale
    /\ calls' = Append(calls, NewCall("evaluate", "evalCacheGet", "t1", "q1", Undefined))
    /\ UNCHANGED <<now, tenants, redis, auditLog, confirmed, probe>>

StartGetStale ==
    /\ CanStartStale
    /\ calls' = Append(calls, [NewCall("get", "docCacheGet", "t1", Undefined, Undefined)
                                 EXCEPT !.getStartSeq = confirmed["t1"]])
    /\ UNCHANGED <<now, tenants, redis, auditLog, confirmed, probe>>

\* The updates are made at time 0: the clock counts from their completion.
StartUpdateStale ==
    /\ CanStartStale
    /\ now = 0
    /\ calls' = Append(calls, NewCall("update", "findTenant", "t1", Undefined, "DocB"))
    /\ UNCHANGED <<now, tenants, redis, auditLog, confirmed, probe>>

\* Time passes between calls: a call takes no time on the scale of the TTLs.
TickIdle ==
    /\ Active = {}
    /\ \E t \in StaleTimes :
         /\ t > now
         /\ now' = t
         /\ redis' = RedisExpire(redis, t)
    /\ UNCHANGED <<tenants, auditLog, calls, confirmed, probe>>

NextStale ==
    \/ StartEvaluateStale
    \/ StartGetStale
    \/ StartUpdateStale
    \/ TickIdle
    \/ \E i \in CallIds : EvalCacheGet(i)
    \/ \E i \in CallIds : DocCacheGet(i)
    \/ \E i \in CallIds : DbRead(i)
    \/ \E i \in CallIds : DocCacheSet(i)
    \/ \E i \in CallIds : EvalCacheSet(i)
    \/ \E i \in CallIds : LogPolicyDeny(i)
    \/ \E i \in CallIds : FindTenant(i)
    \/ \E i \in CallIds : DbWrite(i)
    \/ \E i \in CallIds : InvalidatePolicyCache(i)
    \/ \E i \in CallIds : LogPolicyUpdate(i)

SpecStale == InitStale /\ [][NextStale]_vars

(***************************************************************************)
(* Other writers of the tenant's configuration                             *)
(***************************************************************************)
\* Bound of the model: the writes of the other writer in one behaviour.
MaxOtherWrites == 2

\* Another component writes a section of the configuration that is not the
\* policy section: each write stores a new value.
WriteOtherSection ==
    /\ \E t \in DOMAIN tenants :
         /\ tenants[t].exists
         /\ tenants[t].configuration.present
         /\ tenants[t].configuration.other <= MaxOtherWrites
         /\ tenants' = [tenants EXCEPT ![t].configuration.other = @ + 1]
    /\ UNCHANGED <<now, redis, auditLog, calls, confirmed, probe>>

NextWriters ==
    \/ StartUpdate
    \/ StartGet
    \/ WriteOtherSection
    \/ \E i \in CallIds : DocCacheGet(i)
    \/ \E i \in CallIds : DbRead(i)
    \/ \E i \in CallIds : DocCacheSet(i)
    \/ \E i \in CallIds : FindTenant(i)
    \/ \E i \in CallIds : DbWrite(i)
    \/ \E i \in CallIds : InvalidatePolicyCache(i)
    \/ \E i \in CallIds : LogPolicyUpdate(i)

SpecWriters == Init /\ [][NextWriters]_vars

(***************************************************************************)
(* I/O errors                                                              *)
(***************************************************************************)
\* The awaits of the three operations: each is a call to Redis, to Prisma or to
\* the audit log service.
IoSteps ==
    {"evalCacheGet", "docCacheGet", "dbRead", "docCacheSet", "evalCacheSet",
     "audit", "findTenant", "dbWrite", "invalidate", "auditUpdate"}

\* Bound of the model: the number of awaits that reject in one behaviour.
MaxErrors == 1

IoFailed == {i \in CallIds : calls[i].error = "I/O error"}

\* Faulty variant: the rejection is caught and logged, the operation goes on as
\* if the awaited call had succeeded.
IoErrorSwallowed(i) ==
    LET c == calls[i]
        after == [findTenant |-> "dbWrite", dbWrite |-> "invalidate",
                  invalidate |-> "auditUpdate"] IN
    /\ c.pc \in DOMAIN after
    /\ Cardinality(IoFailed) < MaxErrors
    /\ calls' = [calls EXCEPT ![i] =
                    [c EXCEPT !.pc = after[c.pc], !.error = "I/O error",
                              !.failedAt = c.pc]]
    /\ UNCHANGED <<now, tenants, redis, auditLog, confirmed, probe>>

\* The awaited call rejects.  No operation of the service has a try / catch, so
\* the rejection leaves the operation: the call fails with the error.
IoError(i) ==
    LET c == calls[i] IN
    /\ c.pc \in IoSteps
    /\ Cardinality(IoFailed) < MaxErrors
    /\ calls' = [calls EXCEPT ![i] =
                    [c EXCEPT !.pc = "failed", !.error = "I/O error",
                              !.failedAt = c.pc]]
    /\ UNCHANGED <<now, tenants, redis, auditLog, confirmed, probe>>

NextIo ==
    \/ StartEvaluate
    \/ StartGet
    \/ StartUpdate
    \/ \E i \in CallIds : EvalCacheGet(i)
    \/ \E i \in CallIds : DocCacheGet(i)
    \/ \E i \in CallIds : DbRead(i)
    \/ \E i \in CallIds : DocCacheSet(i)
    \/ \E i \in CallIds : EvalCacheSet(i)
    \/ \E i \in CallIds : LogPolicyDeny(i)
    \/ \E i \in CallIds : FindTenant(i)
    \/ \E i \in CallIds : DbWrite(i)
    \/ \E i \in CallIds : InvalidatePolicyCache(i)
    \/ \E i \in CallIds : LogPolicyUpdate(i)
    \/ \E i \in CallIds : IoError(i)

\* The service with failing dependencies, the clock held still.
SpecIo == Init /\ [][NextIo]_vars

(***************************************************************************)
(* Direct evaluation of generated documents                                *)
(***************************************************************************)
\* Bounds of the generated documents.
MaxRules == 2
MaxPerms == 2

InjectiveSeqs(S, n) ==
    UNION {{s \in [1..k -> S] : \A a, b \in 1..k : a # b => s[a] # s[b]} :
             k \in 0..n}

PermPool ==
    {Permission("Article", {"read"}, "allow", "all"),
     Permission("Article", {"read"}, "deny", "all"),
     Permission("Article", {"read"}, "allow", "own"),
     Permission("Article", {"read"}, "allow", "workspace"),
     Permission("Article", {"read"}, "allow", "team")}

RulePool ==
    {Rule("r-deny", "deny", User42, "delete", "Article", NoConditions, 1),
     Rule("r-allow", "allow", User42, "delete", "Article", NoConditions, 9),
     Rule("r-viewer", "allow", Viewer, "read", "Article", NoConditions, 5),
     Rule("r-viewer-u1", "deny", Viewer, "read", "Article",
          Conditions(Undefined, Undefined, {"u1"}, NoBound, NoBound), 9),
     Rule("r-late-w1", "allow", User42, "delete", "Article",
          Conditions("t1", "w1", {}, WindowStart, NoBound), 0)}

GenDocs ==
    {[version |-> 1, roles |-> roles, rules |-> rules, denyByDefault |-> TRUE] :
        roles \in {NoRoles} \cup {ViewerRole(p) : p \in InjectiveSeqs(PermPool, MaxPerms)},
        rules \in InjectiveSeqs(RulePool, MaxRules)}

GenRequests ==
    {Request(s, a, "Article", Context("t1", w, u)) :
        s \in {[type |-> "string", id |-> "VIEWER"], Viewer, User42},
        a \in {"read", "delete"}, w \in {Undefined, "w1"}, u \in {"u1", "u2"}}

\* evaluate's decision for a request, a document and a clock reading.
ProbeEvaluate ==
    /\ ~probe.used
    /\ probe' = [probe EXCEPT
         !.used = TRUE,
         !.decision = ComputeDecision(NormalizeSubject(probe.request.subject),
                                      probe.request.action, probe.request.resource,
                                      probe.request.context, probe.doc, probe.at)]
    /\ UNCHANGED <<now, tenants, redis, auditLog, calls, confirmed>>

InitEval ==
    /\ now = 0
    /\ tenants = [t \in Tenants |-> NoTenant]
    /\ redis = [k \in {} |-> 0]
    /\ auditLog = {}
    /\ calls = <<>>
    /\ confirmed = [t \in Tenants |-> 0]
    /\ probe \in {[used |-> FALSE, doc |-> doc, request |-> req, at |-> t,
                   decision |-> NoDecision] :
                     doc \in GenDocs, req \in GenRequests, t \in {0, WindowStart}}

SpecEval == InitEval /\ [][ProbeEvaluate]_vars

(***************************************************************************)
(* Direct evaluation: the cases of the RBAC evaluator                      *)
(***************************************************************************)
\* Permission entries for every branch of evaluateRBAC: another resource type,
\* an action set without the requested action, the two effects, the known
\* scopes and an unrecognized one.
RbacPermPool ==
    {Permission("Comment", {"read", "delete"}, "deny", "all"),
     Permission("Article", {"delete"}, "allow", "all"),
     Permission("Article", {"read"}, "allow", "all"),
     Permission("Article", {"read"}, "deny", "all"),
     Permission("Article", {"read"}, "allow", "own"),
     Permission("Article", {"read"}, "allow", "workspace"),
     Permission("Article", {"read"}, "allow", "team"),
     Permission("Article", {"read"}, "deny", "team")}

RbacRulePool ==
    {Rule("r-viewer", "allow", Viewer, "read", "Article", NoConditions, 5),
     Rule("r-viewer-u1", "deny", Viewer, "read", "Article",
          Conditions(Undefined, Undefined, {"u1"}, NoBound, NoBound), 9)}

RbacDocs ==
    {[version |-> 1, roles |-> roles, rules |-> rules, denyByDefault |-> TRUE] :
        roles \in {NoRoles} \cup
                  {ViewerRole(p) : p \in InjectiveSeqs(RbacPermPool, MaxPerms)},
        rules \in InjectiveSeqs(RbacRulePool, MaxRules)}

InitRbac ==
    /\ now = 0
    /\ tenants = [t \in Tenants |-> NoTenant]
    /\ redis = [k \in {} |-> 0]
    /\ auditLog = {}
    /\ calls = <<>>
    /\ confirmed = [t \in Tenants |-> 0]
    /\ probe \in {[used |-> FALSE, doc |-> doc, request |-> req, at |-> 0,
                   decision |-> NoDecision] :
                     doc \in RbacDocs, req \in GenRequests}

SpecRbac == InitRbac /\ [][ProbeEvaluate]_vars

(***************************************************************************)
(* Direct evaluation: the conditions of the ABAC rules                     *)
(***************************************************************************)
\* The end of the time window of the windowed rules.
WindowEnd == 120

\* Rules for every test of the filter of evaluateABAC: the four equalities, and
\* each condition absent, met and not met.
AbacRulePool ==
    {Rule("r-plain", "allow", User42, "delete", "Article", NoConditions, 9),
     Rule("r-comment", "allow", User42, "delete", "Comment", NoConditions, 3),
     Rule("r-role-42", "deny", [type |-> "role", id |-> "42"], "delete", "Article",
          NoConditions, 4),
     Rule("r-empty", "allow", User42, "read", "Article",
          Conditions(Undefined, Undefined, {}, NoBound, NoBound), 2),
     Rule("r-t2", "deny", User42, "delete", "Article",
          Conditions("t2", Undefined, {}, NoBound, NoBound), 8),
     Rule("r-t1-w1", "deny", User42, "delete", "Article",
          Conditions("t1", "w1", {}, NoBound, NoBound), 1),
     Rule("r-u1", "deny", User42, "delete", "Article",
          Conditions(Undefined, Undefined, {"u1"}, NoBound, NoBound), 5),
     Rule("r-window", "deny", User42, "delete", "Article",
          Conditions(Undefined, Undefined, {}, WindowStart, WindowEnd), 7),
     Rule("r-from", "deny", User42, "read", "Article",
          Conditions(Undefined, Undefined, {}, WindowStart, NoBound), 6),
     Rule("r-until", "deny", User42, "read", "Article",
          Conditions(Undefined, Undefined, {"u1", "u2"}, NoBound, WindowEnd), 0)}

AbacDocs ==
    {[version |-> 1, roles |-> NoRoles, rules |-> rules, denyByDefault |-> TRUE] :
        rules \in InjectiveSeqs(AbacRulePool, MaxRules)}

AbacRequests ==
    {Request(s, a, "Article", Context("t1", w, u)) :
        s \in {User42, [type |-> "user", id |-> "7"]},
        a \in {"read", "delete"}, w \in {Undefined, "w1", "w2"},
        u \in {"u1", "u3"}}

\* Clock readings before, at the bounds of, inside and after the time window.
AbacTimes ==
    {WindowStart - 1, WindowStart, WindowStart + 1, WindowEnd, WindowEnd + 1}

InitAbac ==
    /\ now = 0
    /\ tenants = [t \in Tenants |-> NoTenant]
    /\ redis = [k \in {} |-> 0]
    /\ auditLog = {}
    /\ calls = <<>>
    /\ confirmed = [t \in Tenants |-> 0]
    /\ probe \in {[used |-> FALSE, doc |-> doc, request |-> req, at |-> t,
                   decision |-> NoDecision] :
                     doc \in AbacDocs, req \in AbacRequests, t \in AbacTimes}

SpecAbac == InitAbac /\ [][ProbeEvaluate]_vars

(***************************************************************************)
(* Properties                                                              *)
(***************************************************************************)
ProbeSubject == NormalizeSubject(probe.request.subject)

ProbeAbac ==
    EvaluateABAC(ProbeSubject, probe.request.action, probe.request.resource,
                 probe.request.context, probe.doc, probe.at)

ProbeMatches(rule) ==
    RuleMatches(rule, ProbeSubject, probe.request.action, probe.request.resource,
                probe.request.context, probe.at)

EvaluateCalls == {i \in CallIds : calls[i].kind = "evaluate"}
\* The evaluate calls that have returned a result.
Returned == {i \in EvaluateCalls : calls[i].pc = "done"}
\* The evaluate calls that computed their decision (an evaluation-cache miss).
Computed == {i \in EvaluateCalls : calls[i].pc \in {"evalCacheSet", "audit", "done"}
                                   /\ ~calls[i].fromCache}
\* The calls whose getPolicyDocument has returned a document.
GotDocument == {i \in CallIds : calls[i].doc # Undefined /\ calls[i].pc # "docCacheSet"}
DenyRecords == {r \in auditLog : r.action = "policy.deny"}

\* C1: whenever the RBAC evaluator returns an explicit deny, evaluate's decision
\* is denied = true, allowed = false, and evaluateABAC is not called -- also
\* when the document holds a matching ABAC rule with effect allow.
C1_RbacDenyIsFinal ==
    (probe.used /\ probe.decision.rbac.denied) =>
        /\ probe.decision.result.denied
        /\ ~probe.decision.result.allowed
        /\ ~probe.decision.abacConsulted

C1_Witness ==
    /\ probe.used
    /\ probe.decision.rbac.denied
    /\ ProbeAbac.allowed
    /\ probe.decision.result.denied
    /\ ~probe.decision.abacConsulted

\* C2: on an evaluation-cache miss, when neither RBAC nor ABAC has an opinion,
\* evaluate returns denied = true, allowed = false, matchedRuleId null, with the
\* denied-by-default reason.
C2_DefaultDeny ==
    \A i \in Computed :
        LET d == calls[i].decision IN
        (~d.rbac.allowed /\ ~d.rbac.denied /\ ~d.abac.allowed /\ ~d.abac.denied)
            => calls[i].result = PolicyResultOf(FALSE, TRUE, DefaultDenyReason, Null)

C2_Witness ==
    \E i \in Computed \cap Returned :
        LET d == calls[i].decision IN
        /\ ~d.rbac.allowed /\ ~d.rbac.denied /\ ~d.abac.allowed /\ ~d.abac.denied
        /\ d.abacConsulted
        /\ calls[i].result = PolicyResultOf(FALSE, TRUE, DefaultDenyReason, Null)

\* C3: when RBAC has no opinion and the document holds a matching deny rule and
\* a matching allow rule, the decision is denied, whatever the order of the two
\* rules in the document and whatever their priorities.
C3_DenyBeatsAllow ==
    (/\ probe.used
     /\ ~probe.decision.rbac.allowed /\ ~probe.decision.rbac.denied
     /\ \E k \in 1..Len(probe.doc.rules) :
            probe.doc.rules[k].effect = "deny" /\ ProbeMatches(probe.doc.rules[k])
     /\ \E k \in 1..Len(probe.doc.rules) :
            probe.doc.rules[k].effect = "allow" /\ ProbeMatches(probe.doc.rules[k]))
    => (probe.decision.result.denied /\ ~probe.decision.result.allowed)

\* The allow rule comes first in the document and has the higher priority.
C3_Witness ==
    /\ probe.used
    /\ ~probe.decision.rbac.allowed /\ ~probe.decision.rbac.denied
    /\ \E a, d \in 1..Len(probe.doc.rules) :
          /\ a < d
          /\ probe.doc.rules[a].effect = "allow" /\ ProbeMatches(probe.doc.rules[a])
          /\ probe.doc.rules[d].effect = "deny" /\ ProbeMatches(probe.doc.rules[d])
          /\ probe.doc.rules[a].priority > probe.doc.rules[d].priority
    /\ probe.decision.result.denied

\* C4: every result evaluate returns, computed or served from the evaluation
\* cache, has exactly one of allowed and denied true.
C4_ExactlyOneFlag ==
    \A i \in Returned : calls[i].result.allowed # calls[i].result.denied

C4_Witness ==
    \E i, j \in Returned :
        /\ calls[i].fromCache /\ calls[i].result.denied /\ ~calls[i].result.allowed
        /\ ~calls[j].fromCache /\ calls[j].result.allowed /\ ~calls[j].result.denied

SameDecision(a, b) ==
    /\ a.allowed = b.allowed
    /\ a.denied = b.denied
    /\ a.matchedRuleId = b.matchedRuleId

\* What a computation from the tenant's stored configuration gives call c now.
FreshResult(c) ==
    ComputeDecision(SubjectOf(c), RequestOf(c).action, RequestOf(c).resource,
                    RequestOf(c).context,
                    PolicyDocs[LoadFromTenant(tenants[c.tenantId]).doc], now).result

\* C5: an evaluate call that starts after updatePolicyDocument has returned, with
\* no later write to the tenant, returns the decision the document of that
\* update gives for the request.
C5_EvaluateReflectsUpdate ==
    \A i \in Returned :
        (/\ calls[i].startSeq >= 1
         /\ calls[i].startSeq = tenants[calls[i].tenantId].seq)
        => SameDecision(calls[i].result, FreshResult(calls[i]))

\* C6: every evaluate call that returns denied = true has written a deny-audit
\* record for that call, a denial served from the evaluation cache included.
C6_EveryDenialAudited ==
    \A i \in Returned :
        calls[i].result.denied => \E r \in DenyRecords : r.call = i

\* C7: an evaluate call that returns allowed = true writes no audit record; every
\* 'policy.deny' record belongs to an evaluate call whose result was denied, and
\* there are never more such records than denied results returned.
C7_AuditOnlyDenials ==
    /\ \A r \in DenyRecords :
          /\ r.call \in Returned
          /\ calls[r.call].result.denied
          /\ ~calls[r.call].result.allowed
    /\ \A i \in EvaluateCalls :
          calls[i].result.allowed => ~\E r \in auditLog : r.call = i
    /\ Cardinality(DenyRecords)
          <= Cardinality({i \in Returned : calls[i].result.denied})

C7_Witness ==
    /\ \E i \in Returned : calls[i].result.allowed
    /\ \E i \in Returned : calls[i].result.denied /\ calls[i].fromCache
    /\ DenyRecords # {}

\* C8: with a policy document that has never changed, evaluate calls with the
\* same subject, action, resource and context return the same allowed, denied
\* and matchedRuleId.
C8_RepeatedCallsAgree ==
    \A i, j \in Returned :
        (/\ calls[i].request = calls[j].request
         /\ tenants[calls[i].tenantId].seq = 0)
        => SameDecision(calls[i].result, calls[j].result)

C10_UnconfiguredTenantDenied ==
    \A i \in CallIds :
        LET c == calls[i]
            row == tenants[c.tenantId] IN
        LoadFromTenant(row).doc = "DEFAULT" =>
            /\ (i \in GotDocument /\ c.getStartSeq = row.seq) => c.doc = "DEFAULT"
            /\ (i \in Returned /\ c.startSeq = row.seq)
                  => c.result = PolicyResultOf(FALSE, TRUE, DefaultDenyReason, Null)

UpdateCalls == {i \in CallIds : calls[i].kind = "update"}

\* C11: updatePolicyDocument on a tenant that does not exist throws 'Tenant not
\* found' at its first step, and that step changes neither the store, nor the
\* caches, nor the audit log; the call takes no further step.
C11_MissingTenantUpdate ==
    [][\A i \in UpdateCalls :
          /\ (/\ calls[i].pc = "findTenant"
              /\ ~tenants[calls[i].tenantId].exists
              /\ calls'[i] # calls[i])
             => /\ calls'[i].pc = "failed"
                /\ calls'[i].error = "Tenant not found"
                /\ UNCHANGED <<tenants, redis, auditLog, confirmed>>
          /\ calls[i].pc = "failed" => calls'[i] = calls[i]]_vars

C11_Witness ==
    \E i \in UpdateCalls :
        /\ calls[i].pc = "failed"
        /\ calls[i].error = "Tenant not found"
        /\ calls[i].writeSeq = 0
        /\ ~tenants[calls[i].tenantId].exists
        /\ DOMAIN redis # {}
        /\ auditLog # {}
        /\ \A r \in auditLog : r.call # i

\* C12: an evaluate call does not fail when its evaluation-cache read or its
\* evaluation-cache write fails with an I/O error.
C12_EvalCacheErrorTolerated ==
    \A i \in EvaluateCalls :
        ~(/\ calls[i].pc = "failed"
          /\ calls[i].error = "I/O error"
          /\ calls[i].failedAt \in {"evalCacheGet", "evalCacheSet"})

\* C13: a call does not fail when the document-cache read or the store read of
\* its getPolicyDocument fails with an I/O error.
C13_DocumentLoadErrorTolerated ==
    \A i \in CallIds :
        ~(/\ calls[i].pc = "failed"
          /\ calls[i].error = "I/O error"
          /\ calls[i].failedAt \in {"docCacheGet", "dbRead"})

UpdateRecords == {r \in auditLog : r.action = "owner.policy.update"}

\* C14: an updatePolicyDocument call whose store write failed has failed (it
\* never returns success), has written nothing and has no administrative audit
\* record; every such record belongs to a call whose store write took place.
C14_FailedWriteSurfaced ==
    /\ \A i \in UpdateCalls :
          calls[i].failedAt = "dbWrite" =>
              /\ calls[i].pc = "failed"
              /\ calls[i].error = "I/O error"
              /\ calls[i].writeSeq = 0
              /\ \A r \in auditLog : r.call # i
    /\ \A r \in UpdateRecords :
          /\ r.call \in UpdateCalls
          /\ calls[r.call].pc = "done"
          /\ calls[r.call].writeSeq >= 1

C14_Witness ==
    /\ \E i \in UpdateCalls :
          /\ calls[i].pc = "failed"
          /\ calls[i].failedAt = "dbWrite"
          /\ tenants[calls[i].tenantId].exists
    /\ UpdateRecords # {}

\* C16: whenever the RBAC evaluator returns an explicit allow, evaluate's
\* decision is allowed = true, denied = false, matchedRuleId null, and
\* evaluateABAC is not called -- also when a matching ABAC deny rule exists.
C16_RbacAllowBeatsAbacDeny ==
    (probe.used /\ probe.decision.rbac.allowed) =>
        /\ probe.decision.result.allowed
        /\ ~probe.decision.result.denied
        /\ probe.decision.result.matchedRuleId = Null
        /\ ~probe.decision.abacConsulted

C16_Witness ==
    /\ probe.used
    /\ probe.decision.rbac.allowed
    /\ ProbeAbac.denied
    /\ probe.decision.result.allowed
    /\ probe.decision.result.matchedRuleId = Null
    /\ ~probe.decision.abacConsulted

\* The permission entry evaluateRBAC finds for the probed request: 0 when the
\* subject is no role of the document or the role has no entry for the resource.
ProbePermissionIndex ==
    IF ProbeSubject.type = "role" /\ ProbeSubject.id \in DOMAIN probe.doc.roles
    THEN FindPermission(probe.doc.roles[ProbeSubject.id].permissions,
                        probe.request.resource)
    ELSE 0

ProbePermission == probe.doc.roles[ProbeSubject.id].permissions[ProbePermissionIndex]

ScopeMismatchReasons ==
    {"Scope mismatch (own scope requires workspace context)",
     "Scope mismatch (workspace scope requires workspaceId in context)"}

\* C17: for a role subject whose permission entry for the resource has effect
\* allow and contains the action: scope 'all' gives allowed; scope 'own' or
\* 'workspace' gives allowed exactly when context.workspaceId is present, and
\* otherwise a deny with a scope-mismatch reason, decided without ABAC.
C17_ScopeDecides ==
    (/\ probe.used
     /\ ProbePermissionIndex # 0
     /\ ProbePermission.effect = "allow"
     /\ probe.request.action \in ProbePermission.actions)
    => LET res == probe.decision.result
           ws == probe.request.context.workspaceId IN
       /\ ProbePermission.scope = "all" => (res.allowed /\ ~res.denied)
       /\ ProbePermission.scope \in {"own", "workspace"} =>
             /\ res.allowed <=> ws # Undefined
             /\ ws = Undefined =>
                   /\ res.denied /\ ~res.allowed
                   /\ res.reason \in ScopeMismatchReasons
                   /\ ~probe.decision.abacConsulted

C17_Witness ==
    /\ probe.used
    /\ ProbePermissionIndex # 0
    /\ ProbePermission.effect = "allow"
    /\ ProbePermission.scope = "workspace"
    /\ probe.request.action \in ProbePermission.actions
    /\ probe.request.context.workspaceId = Undefined
    /\ ProbeAbac.allowed
    /\ probe.decision.result.denied
    /\ probe.decision.result.reason \in ScopeMismatchReasons

\* A rule of call c's document with this id and effect that matches c's request
\* at a clock reading up to now.
MatchedBy(c, id, effect) ==
    \E k \in 1..Len(PolicyDocs[c.doc].rules) :
        LET rule == PolicyDocs[c.doc].rules[k] IN
        /\ rule.id = id
        /\ rule.effect = effect
        /\ \E t \in Times :
              /\ t <= now
              /\ RuleMatches(rule, SubjectOf(c), RequestOf(c).action,
                             RequestOf(c).resource, RequestOf(c).context, t)

\* C18: a decision computed by the ABAC layer carries as matchedRuleId the id of
\* a rule of the document that matches the request and has the decision's
\* effect, and for a deny the audit record of the call carries the same id; a
\* decision from RBAC or from the default deny has matchedRuleId null.
C18_MatchedRuleReported ==
    \A i \in Computed :
        LET c == calls[i]
            d == c.decision IN
        /\ (d.abacConsulted /\ d.abac.denied) =>
              /\ c.result.denied
              /\ MatchedBy(c, c.result.matchedRuleId, "deny")
              /\ c.pc = "done" =>
                    \E r \in DenyRecords :
                        r.call = i /\ r.matchedRuleId = c.result.matchedRuleId
        /\ (d.abacConsulted /\ d.abac.allowed) =>
              /\ c.result.allowed
              /\ MatchedBy(c, c.result.matchedRuleId, "allow")
        /\ (~d.abacConsulted \/ (~d.abac.allowed /\ ~d.abac.denied)) =>
              c.result.matchedRuleId = Null

C18_Witness ==
    /\ \E i \in Computed \cap Returned :
          /\ calls[i].decision.abac.denied
          /\ calls[i].result.matchedRuleId = "a-deny-late"
          /\ \E r \in DenyRecords : r.call = i /\ r.matchedRuleId = "a-deny-late"
    /\ \E i \in Computed \cap Returned :
          /\ calls[i].decision.abac.allowed
          /\ calls[i].result.matchedRuleId = "a-allow-u1"

\* Call i's getPolicyDocument returns in this step after a miss of the document
\* cache: the step is its store read (lines 67-79) or its cache write (line 82).
ReturnsAfterMiss(i) ==
    /\ calls[i].pc \in {"dbRead", "docCacheSet"}
    /\ calls'[i].pc \notin {"dbRead", "docCacheSet", "failed"}

\* The document cache holds doc under the tenant's key with a full TTL.
CacheHoldsDocument(r, tenantId, doc, t) ==
    /\ PolicyCacheKey(tenantId) \in DOMAIN r
    /\ r[PolicyCacheKey(tenantId)].value = doc
    /\ r[PolicyCacheKey(tenantId)].expiresAt = t + CACHE_TTL

\* C20 as claimed: when a getPolicyDocument call that missed the document cache
\* returns, the cache holds the returned document under the tenant's key with
\* the document TTL, for a stored and for the default document alike.
C20_MissPopulatesCache ==
    [][\A i \in CallIds :
          ReturnsAfterMiss(i) =>
              CacheHoldsDocument(redis', calls[i].tenantId, calls'[i].doc, now)]_vars

\* C20 as amended: the cache is populated when the call returns the version-1
\* document found in the configuration (or the default standing in for a
\* missing policy section); when the tenant or its configuration is missing or
\* the stored version is not 1, the default is returned and nothing is cached.
C20_MissPopulatesCacheForStored ==
    [][\A i \in CallIds :
          ReturnsAfterMiss(i) =>
              IF LoadFromTenant(tenants[calls[i].tenantId]).cached
                 \/ calls[i].pc = "docCacheSet"
              THEN CacheHoldsDocument(redis', calls[i].tenantId, calls'[i].doc, now)
              ELSE calls'[i].doc = "DEFAULT" /\ redis' = redis]_vars

C20_Witness ==
    /\ \E i \in GotDocument :
          /\ ~calls[i].docFromCache
          /\ calls[i].doc = "DocA"
          /\ CacheHoldsDocument(redis, calls[i].tenantId, "DocA", now)
    /\ \E i \in GotDocument :
          /\ ~calls[i].docFromCache
          /\ calls[i].doc = "DEFAULT"

\* The evaluate calls that have written their result to the evaluation cache,
\* the calls that have written their document to the document cache.
WroteResult == {j \in Computed : calls[j].pc \in {"audit", "done"}}
WroteDocument == {j \in GotDocument : ~calls[j].docFromCache /\ calls[j].doc # "DEFAULT"}

\* No entry a call of one tenant reads from a cache was written under the same
\* key by a call of another tenant.
NoCrossTenantEntry ==
    /\ \A i \in Returned : \A j \in WroteResult :
          (calls[i].fromCache /\ EvalKeyOf(calls[i]) = EvalKeyOf(calls[j]))
              => calls[i].tenantId = calls[j].tenantId
    /\ \A i \in GotDocument : \A j \in WroteDocument :
          (/\ calls[i].docFromCache
           /\ PolicyCacheKey(calls[i].tenantId) = PolicyCacheKey(calls[j].tenantId))
              => calls[i].tenantId = calls[j].tenantId

\* C15 as claimed: for tenants A # B, whatever their ids and the ids of subject
\* and workspace, no document or decision cached for A is returned to B.
C15_NoCrossTenantInterference == NoCrossTenantEntry

\* The same holds when no tenant id contains ':', for every subject and
\* workspace id, with the separator or without.
C15_NoInterferenceSeparatorFreeIds ==
    (DOMAIN tenants \cap IdsWithSeparator = {}) => NoCrossTenantEntry

C15_SeparatorFreeCase ==
    /\ DOMAIN tenants \cap IdsWithSeparator = {}
    /\ \E i, j \in Returned :
          /\ calls[i].tenantId = "t1" /\ calls[j].tenantId = "t2"
          /\ calls[i].request = "x5" /\ calls[j].request = "x3"
          /\ ~calls[i].fromCache /\ calls[i].result.denied
          /\ ~calls[j].fromCache /\ calls[j].result.allowed
    /\ \E i \in Returned : calls[i].fromCache

\* Call i returns in this step.
ReturnsNow(i) == calls[i].pc # "done" /\ calls'[i].pc = "done"

RecordsOf(log, i) == {r \in log : r.call = i}

\* The steps of update call i come in the order store write, document-cache
\* deletion, administrative audit record: the write stores the call's document
\* and touches neither cache nor log; the deletion comes after the write and
\* before any record; the call returns from the audit step with exactly one
\* record, an 'owner.policy.update'.
UpdateStepsInOrder(i) ==
    LET c == calls[i]
        key == PolicyCacheKey(c.tenantId) IN
    /\ (c.pc = "dbWrite" /\ calls'[i].pc # c.pc) =>
          /\ tenants'[c.tenantId].configuration.policyEngine = c.policy
          /\ calls'[i].pc = "invalidate"
          /\ redis' = redis
          /\ RecordsOf(auditLog', i) = {}
    /\ (c.pc = "invalidate" /\ calls'[i].pc # c.pc) =>
          /\ c.writeSeq >= 1
          /\ tenants[c.tenantId].seq >= c.writeSeq
          /\ key \notin DOMAIN redis'
          /\ tenants' = tenants
          /\ calls'[i].pc = "auditUpdate"
          /\ RecordsOf(auditLog', i) = {}
    /\ ReturnsNow(i) =>
          /\ c.pc = "auditUpdate"
          /\ c.writeSeq >= 1
          /\ RecordsOf(auditLog, i) = {}
          /\ Cardinality(RecordsOf(auditLog', i)) = 1
          /\ \A r \in RecordsOf(auditLog', i) : r.action = "owner.policy.update"
          /\ redis' = redis /\ tenants' = tenants

\* C21 as claimed: a successful updatePolicyDocument writes the store, then
\* deletes the document-cache entry, then writes one 'owner.policy.update'
\* record, and on return the store holds the document the call was given.
C21_UpdateInOrder ==
    [][\A i \in UpdateCalls :
          /\ UpdateStepsInOrder(i)
          /\ ReturnsNow(i) =>
                tenants'[calls[i].tenantId].configuration.policyEngine
                    = calls[i].policy]_vars

\* C21 as amended: the same order of effects; on return the store holds the
\* call's document unless a later write to the tenant has replaced it.
C21_UpdateInOrderLastWriter ==
    [][\A i \in UpdateCalls :
          /\ UpdateStepsInOrder(i)
          /\ ReturnsNow(i) =>
                /\ tenants'[calls[i].tenantId].seq >= calls[i].writeSeq
                /\ tenants'[calls[i].tenantId].seq = calls[i].writeSeq =>
                      tenants'[calls[i].tenantId].configuration.policyEngine
                          = calls[i].policy]_vars

\* An update returned after a document had been cached: the store holds its
\* document, the cache entry is gone and its one record is in the log.
C21_Witness ==
    \E i \in UpdateCalls :
        /\ calls[i].pc = "done"
        /\ tenants[calls[i].tenantId].configuration.policyEngine = calls[i].policy
        /\ \E j \in GotDocument : j < i /\ ~calls[j].docFromCache /\ calls[j].doc = "DocA"
        /\ PolicyCacheKey(calls[i].tenantId) \notin DOMAIN redis
        /\ Cardinality(RecordsOf(auditLog, i)) = 1
        /\ \A r \in RecordsOf(auditLog, i) : r.action = "owner.policy.update"

RbacNoOpinionCase ==
    \/ ProbeSubject.type # "role"
    \/ ProbeSubject.id \notin DOMAIN probe.doc.roles
    \/ ProbePermissionIndex = 0
    \/ /\ ProbePermissionIndex # 0
       /\ \/ probe.request.action \notin ProbePermission.actions
          \/ /\ ProbePermission.effect = "allow"
             /\ ProbePermission.scope \notin {"own", "workspace", "all"}

\* C23: the RBAC evaluator gives no opinion exactly when the subject is no role
\* subject, the role is not in the document, the role has no entry for the
\* resource, the action is not in the entry's actions, or the entry allows with
\* a scope other than own / workspace / all; evaluate then returns the ABAC
\* decision, or the default deny when ABAC has no opinion.  An entry with effect
\* deny and an unrecognized scope denies.
C23_RbacNoOpinionCases ==
    probe.used =>
        LET d == probe.decision IN
        /\ (~d.rbac.allowed /\ ~d.rbac.denied) <=> RbacNoOpinionCase
        /\ RbacNoOpinionCase =>
              /\ d.abacConsulted
              /\ d.result =
                    IF ProbeAbac.denied \/ ProbeAbac.allowed
                    THEN PolicyResultOf(ProbeAbac.allowed, ProbeAbac.denied,
                                        ProbeAbac.reason, ProbeAbac.matchedRuleId)
                    ELSE PolicyResultOf(FALSE, TRUE, DefaultDenyReason, Null)
        /\ (/\ ~RbacNoOpinionCase
            /\ ProbePermission.effect = "deny") =>
              /\ d.rbac.denied
              /\ d.result.denied /\ ~d.result.allowed

\* An allow entry with an unrecognized scope leaves the decision to a deny rule.
C23_Witness ==
    /\ probe.used
    /\ ProbePermissionIndex # 0
    /\ probe.request.action \in ProbePermission.actions
    /\ ProbePermission.effect = "allow"
    /\ ProbePermission.scope = "team"
    /\ ~probe.decision.rbac.allowed /\ ~probe.decision.rbac.denied
    /\ probe.decision.result.denied
    /\ probe.decision.result.matchedRuleId = "r-viewer-u1"

\* The permission list of the probed role, empty when the subject is no role of
\* the document.
ProbePermissions ==
    IF ProbeSubject.type = "role" /\ ProbeSubject.id \in DOMAIN probe.doc.roles
    THEN probe.doc.roles[ProbeSubject.id].permissions
    ELSE <<>>

\* The positions of the entries for the requested resource, in list order.
EntriesForResource ==
    {k \in 1..Len(ProbePermissions) :
        ProbePermissions[k].resource = probe.request.resource}

\* The entry for the resource that no other such entry precedes.
FirstEntry ==
    ProbePermissions[CHOOSE k \in EntriesForResource :
                        \A j \in 1..(k - 1) : j \notin EntriesForResource]

\* The probed document with the role's permission list cut down to that entry.
ProbeDocFirstEntryOnly ==
    [probe.doc EXCEPT !.roles[ProbeSubject.id].permissions = <<FirstEntry>>]

\* C30: when the role's permission list holds several entries for the resource,
\* the RBAC evaluator decides as if the first of them were the only entry; when
\* the first entry lacks the requested action it gives no opinion, also when a
\* later entry for the resource has the action with effect deny or allow.
C30_FirstEntryOnly ==
    (probe.used /\ Cardinality(EntriesForResource) > 1) =>
        /\ probe.decision.rbac =
              EvaluateRBAC(ProbeSubject, probe.request.action, probe.request.resource,
                           probe.request.context, ProbeDocFirstEntryOnly)
        /\ probe.request.action \notin FirstEntry.actions =>
              (~probe.decision.rbac.allowed /\ ~probe.decision.rbac.denied)

\* The first entry lacks the action, a later entry for the resource denies it,
\* and the request is allowed by an ABAC rule.
C30_Witness ==
    /\ probe.used
    /\ Cardinality(EntriesForResource) > 1
    /\ probe.request.action \notin FirstEntry.actions
    /\ \E k \in EntriesForResource :
          /\ probe.request.action \in ProbePermissions[k].actions
          /\ ProbePermissions[k].effect = "deny"
    /\ ~probe.decision.rbac.allowed /\ ~probe.decision.rbac.denied
    /\ probe.decision.result.allowed

\* A condition of a rule holds when it is absent or its test succeeds.
TenantConditionHolds(cond) ==
    cond.tenantId \in {Undefined, probe.request.context.tenantId}

WorkspaceConditionHolds(cond) ==
    \/ cond.workspaceId = Undefined
    \/ /\ probe.request.context.workspaceId # Undefined
       /\ cond.workspaceId = probe.request.context.workspaceId

UserConditionHolds(cond) ==
    cond.userIds = {} \/ probe.request.context.userId \in cond.userIds

TimeConditionHolds(cond) ==
    /\ cond.time.start = NoBound \/ cond.time.start <= probe.at
    /\ cond.time.end = NoBound \/ probe.at <= cond.time.end

\* The rules of the probed document that are candidates for the probed request.
IsCandidate(rule) ==
    /\ <<rule.action, rule.resource, rule.subject.type, rule.subject.id>>
          = <<probe.request.action, probe.request.resource,
              ProbeSubject.type, ProbeSubject.id>>
    /\ TenantConditionHolds(rule.conditions)
    /\ WorkspaceConditionHolds(rule.conditions)
    /\ UserConditionHolds(rule.conditions)
    /\ TimeConditionHolds(rule.conditions)

Candidates == {k \in 1..Len(probe.doc.rules) : IsCandidate(probe.doc.rules[k])}

\* C24: a rule passes the filter of evaluateABAC if and only if its action,
\* resource, subject type and subject id equal the request's and each condition
\* present on it holds (tenantId, workspaceId, a non-empty userIds, the time
\* bounds, inclusive); the ABAC evaluator has an opinion exactly when some rule
\* is such a candidate, and the rule it reports is one.
C24_CandidateRules ==
    probe.used =>
        /\ \A k \in 1..Len(probe.doc.rules) :
              ProbeMatches(probe.doc.rules[k]) <=> k \in Candidates
        /\ (probe.decision.abac.allowed \/ probe.decision.abac.denied)
              <=> Candidates # {}
        /\ Candidates # {} =>
              \E k \in Candidates :
                  probe.doc.rules[k].id = probe.decision.abac.matchedRuleId

\* At the last second of its window a windowed rule decides, and in the same
\* document a rule with a workspace condition is no candidate for a request
\* without workspace.
C24_Witness ==
    /\ probe.used
    /\ probe.at = WindowEnd
    /\ probe.request.context.workspaceId = Undefined
    /\ \E k \in 1..Len(probe.doc.rules) : probe.doc.rules[k].id = "r-t1-w1"
    /\ probe.decision.abac.denied
    /\ probe.decision.result.matchedRuleId = "r-window"

\* The two-pass partition of the candidates: the first deny rule in document
\* order if there is one, otherwise the first allow rule.
FirstOf(S) == CHOOSE k \in S : \A j \in S : k <= j

TwoPassWinner ==
    LET denies == {k \in Candidates : probe.doc.rules[k].effect = "deny"}
        allows == {k \in Candidates : probe.doc.rules[k].effect = "allow"}
    IN  probe.doc.rules[IF denies # {} THEN FirstOf(denies) ELSE FirstOf(allows)]

\* The probed document with the order of the rules' priorities reversed.
ProbeDocOtherPriorities ==
    [probe.doc EXCEPT !.rules =
        [k \in 1..Len(probe.doc.rules) |->
            [probe.doc.rules[k] EXCEPT !.priority = 9 - @]]]

\* The ABAC evaluator returns the winner of the two-pass partition, whatever
\* the priorities, and without candidates no opinion with the given reason.
SortEqualsTwoPass(noMatchReason) ==
    probe.used =>
        /\ Candidates # {} =>
              probe.decision.abac =
                  IF TwoPassWinner.effect = "deny"
                  THEN PolicyResultOf(FALSE, TRUE,
                                      "Denied by rule " \o TwoPassWinner.id,
                                      TwoPassWinner.id)
                  ELSE PolicyResultOf(TRUE, FALSE,
                                      "Allowed by rule " \o TwoPassWinner.id,
                                      TwoPassWinner.id)
        /\ Candidates = {} =>
              probe.decision.abac =
                  PolicyResultOf(FALSE, FALSE, noMatchReason, Undefined)
        /\ probe.decision.abac =
              EvaluateABAC(ProbeSubject, probe.request.action, probe.request.resource,
                           probe.request.context, ProbeDocOtherPriorities, probe.at)

C26_CachedEqualsFresh ==
    \A i \in Returned :
        (/\ calls[i].fromCache
         /\ tenants[calls[i].tenantId].seq = 0
         /\ now = 0)
        => SameDecision(calls[i].result, FreshResult(calls[i]))

\* The deny-audit records written for the tenant, subject, action and resource
\* of call c.
DenyRecordsFor(c) ==
    {r \in DenyRecords :
        /\ calls[r.call].tenantId = c.tenantId
        /\ SubjectOf(calls[r.call]) = SubjectOf(c)
        /\ RequestOf(calls[r.call]).action = RequestOf(c).action
        /\ RequestOf(calls[r.call]).resource = RequestOf(c).resource}

\* C27: whenever an evaluate call has returned a denied result from the
\* evaluation cache, a deny-audit record for the same tenant, subject, action
\* and resource has been written.
C27_CachedDenialAudited ==
    \A i \in Returned :
        (calls[i].fromCache /\ calls[i].result.denied)
            => DenyRecordsFor(calls[i]) # {}

\* C28: an updatePolicyDocument call that has failed -- whatever the await that
\* failed -- has not written the store; and a call that has ended with the store
\* written has deleted the tenant's document-cache entry.
C28_UpdateAllOrNothing ==
    \A i \in UpdateCalls :
        /\ calls[i].pc = "failed" => calls[i].writeSeq = 0
        /\ (calls[i].pc \in {"done", "failed"} /\ calls[i].writeSeq >= 1) =>
              (calls[i].pc = "done" \/ calls[i].failedAt = "auditUpdate")

\* C29: the store write of an updatePolicyDocument call leaves the sections of
\* the configuration other than the policy section as they are in the store at
\* that moment, whatever was written to them since the call read the
\* configuration.
C29_OtherSectionsKept ==
    [][\A i \in UpdateCalls :
          (calls[i].pc = "dbWrite" /\ calls'[i].pc # "dbWrite") =>
              tenants'[calls[i].tenantId].configuration.other
                  = tenants[calls[i].tenantId].configuration.other]_vars

=============================================================================
